---- MODULE Spec2Model ----
(***************************************************************************)
(* Model of yakuza's Job (src/spec/http.spec.js, lines 202-496): the plan  *)
(* filter (_applyPlan), the execution block builder (_buildTask,           *)
(* _buildExecutionBlock) and the event driven lifecycle (run, job:start,   *)
(* eq:applyBlock), together with the public enqueue/params API.            *)
(*                                                                         *)
(* JavaScript values are modelled as records [type, str, obj]; an optional *)
(* reference (null / undefined or an object) is a sequence of length 0 or  *)
(* 1; array indices are 1-based, so JavaScript's index i is i + 1 here and *)
(* indexOf's -1 is 0.                                                      *)
(***************************************************************************)
EXTENDS Integers, Sequences, FiniteSets, TLC

\* ------------------------------------------------------------------ bounds
MaxPlanSpecs == 3
MaxGroups == 2
MaxGroupLen == 2
MaxEnqueue == 2
MaxFilterEnqueue == 3
MaxInstances == 3
MaxRunCalls == 2
MaxParamsCalls == 3
MaxRequests == 2

\* ------------------------------------------------------------ value domains
TaskIds == {"a", "b"}

SeqsUpTo(S, n) == UNION {[1..k -> S] : k \in 0..n}

\* A node of a plan group.  The code reads taskId and selfSync only.
TaskSpecs == [taskId : TaskIds, selfSync : BOOLEAN]

\* s cut into consecutive non-empty groups after the positions in cuts
Split(s, cuts) ==
  LET starts == {1} \cup {c + 1 : c \in cuts}
      start(k) == CHOOSE x \in starts : Cardinality({y \in starts : y < x}) = k - 1
      stop(k) == IF k = Cardinality(starts) THEN Len(s) ELSE start(k + 1) - 1
  IN IF s = <<>> THEN <<>>
     ELSE [k \in 1..Cardinality(starts) |-> SubSeq(s, start(k), stop(k))]

\* the Master Plans of at most MaxPlanSpecs TaskSpecs, grouped in every way
MasterPlans ==
  UNION {{Split(s, cuts) : cuts \in SUBSET (1..(Len(s) - 1))} :
           s \in SeqsUpTo(TaskSpecs, MaxPlanSpecs)}

\* The Master Plans of the lifecycle: at most MaxGroups groups of one TaskSpec.
\* run() reads a group's TaskSpecs through the plan filter and the block
\* builder only, which PlanSpec and BuildSpec exercise on groups of every shape.
LifecyclePlans == SeqsUpTo({<<[taskId |-> id, selfSync |-> FALSE]>> : id \in TaskIds}, MaxGroups)

\* The agent's registry: the task identifiers that have a TaskDefinition.
Registries == SUBSET TaskIds

\* JavaScript values handed to the public API.
EmptyObj == [k \in {} |-> 0]

JsString(s) == [type |-> "string", str |-> s, obj |-> EmptyObj]

JsObject(o) == [type |-> "object", str |-> "", obj |-> o]

JsOther(t) == [type |-> t, str |-> "", obj |-> EmptyObj]

EnqueueArgs == {JsString(s) : s \in TaskIds \cup {""}}
                 \cup {JsOther(t) : t \in {"number", "null", "undefined", "object"}}

ParamObjs == {[a |-> 1], [a |-> 2, b |-> 3]}

ParamsArgs == {JsObject(o) : o \in ParamObjs}
                \cup {JsOther(t) : t \in {"array", "number", "null"}}
                \cup {JsString("x")}

\* the arguments of the params harness: overlapping, disjoint and empty objects
MergeObjs == ParamObjs \cup {[b |-> 1], EmptyObj}

MergeArgs == {JsObject(o) : o \in MergeObjs} \cup {JsOther("array")}

\* lodash predicates
isString(v) == v.type = "string"

isArray(v) == v.type = "array"

isObject(v) == v.type \in {"object", "array", "function"}

\* an extend that keeps the keys dst already has
extendKeepExisting(dst, src) ==
  [k \in (DOMAIN dst) \cup (DOMAIN src) |-> IF k \in DOMAIN dst THEN dst[k] ELSE src[k]]

\* _.extend(dst, src): own keys of src overwrite those of dst
extend(dst, src) ==
  [k \in (DOMAIN dst) \cup (DOMAIN src) |-> IF k \in DOMAIN src THEN src[k] ELSE dst[k]]

\* optional references
None == <<>>

Some(x) == <<x>>

\* outcomes of a call
NoError == [kind |-> "none", taskId |-> ""]

Error(kind, taskId) == [kind |-> kind, taskId |-> taskId]

\* ------------------------------------------------------------------- state
VARIABLES
  agent,              \* the Agent: [id, plan (Master Plan), taskDefinitions]
  uid,                \* Job.uid
  started,            \* Job._started
  planIdx,            \* Job._planIdx, as in the source (-1 initially)
  executionQueueIdx,  \* Job._executionQueueIdx
  params,             \* Job._params
  enqueuedTasks,      \* Job._enqueuedTasks
  plan,               \* Job._plan: None (null) or Some(effective plan)
  executionQueue,     \* Job._executionQueue
  startListeners,     \* listeners registered for job:start (once)
  setupCalls,         \* invocations of agent._applySetup
  planCalls,          \* invocations of _applyPlan
  blockCalls,         \* invocations of _applyNextExecutionBlock
  builderCalls,       \* invocations of taskDefinition._build
  applied,            \* eq:applyBlock notifications emitted
  events,             \* the steps of the start transition, in execution order
  runCalls,           \* calls of run() made so far
  result,             \* outcome of the last public call
  phase,              \* position of the pure-function harnesses
  inGroup,            \* input of the block builder harness
  inOuts,             \* builder outputs (instance counts) of the harness
  outBlock,           \* result of the block builder harness
  paramsLog,          \* the valid params() arguments so far (params harness)
  httpLog,            \* Http._log
  cookieJar,          \* Http._cookieJar: cookies stored per hostname
  requests,           \* requests issued on the Http instance so far
  inflight,           \* requests the client has not completed yet
  clientCalls,        \* calls the last verb delegate made on Http._request
  completion          \* the last completion: what _interceptResponse did

jobVars == <<uid, started, planIdx, executionQueueIdx, params, enqueuedTasks, plan,
             executionQueue, startListeners>>

obsVars == <<setupCalls, planCalls, blockCalls, builderCalls, applied, events>>

httpVars == <<httpLog, cookieJar, requests, inflight, clientCalls, completion>>

harnessVars == <<phase, inGroup, inOuts, outBlock, paramsLog, httpVars>>

vars == <<agent, jobVars, obsVars, runCalls, result, harnessVars>>

\* ------------------------------------------------------------- plan filter
\* Array.prototype.indexOf: first position of x in seq, 0 when absent
indexOf(seq, x) ==
  IF \E i \in 1..Len(seq) : seq[i] = x
  THEN CHOOSE i \in 1..Len(seq) : seq[i] = x /\ \A j \in 1..(i - 1) : seq[j] # x
  ELSE 0

\* _.map(executionGroup, taskObj => taskObj.taskId)
GroupTaskIds(executionGroup) == [i \in 1..Len(executionGroup) |-> executionGroup[i].taskId]

\* a filter that keeps the group's own order: the group's TaskSpecs whose
\* identifier was enqueued
EachEnqueuedTaskInPlanOrder(executionGroup, enqueued, i, newTaskGroup) ==
  newTaskGroup \o SelectSeq(executionGroup,
                            LAMBDA t : \E j \in i..Len(enqueued) : enqueued[j] = t.taskId)

\* inner loop of _applyPlan: walk the enqueued tasks from position i on
RECURSIVE EachEnqueuedTask(_, _, _, _)
EachEnqueuedTask(executionGroup, enqueued, i, newTaskGroup) ==
  IF i > Len(enqueued) THEN newTaskGroup
  ELSE LET matchIdx == indexOf(GroupTaskIds(executionGroup), enqueued[i])
       IN EachEnqueuedTask(executionGroup, enqueued, i + 1,
            IF matchIdx >= 1 THEN Append(newTaskGroup, executionGroup[matchIdx])
                             ELSE newTaskGroup)

\* a filter that pushes every group, empty or not
RECURSIVE EachExecutionGroupKeepEmpty(_, _, _, _, _)
EachExecutionGroupKeepEmpty(executionPlan, enqueued, g, newExecutionPlan, newTaskGroup) ==
  IF g > Len(executionPlan) THEN newExecutionPlan
  ELSE EachExecutionGroupKeepEmpty(executionPlan, enqueued, g + 1,
         Append(newExecutionPlan,
                EachEnqueuedTask(executionPlan[g], enqueued, 1, newTaskGroup)),
         <<>>)

\* outer loop of _applyPlan: walk the Master Plan's groups from position g on
RECURSIVE EachExecutionGroup(_, _, _, _, _)
EachExecutionGroup(executionPlan, enqueued, g, newExecutionPlan, newTaskGroup) ==
  IF g > Len(executionPlan) THEN newExecutionPlan
  ELSE LET filled == EachEnqueuedTask(executionPlan[g], enqueued, 1, newTaskGroup)
       IN IF Len(filled) > 0
          THEN EachExecutionGroup(executionPlan, enqueued, g + 1,
                                  Append(newExecutionPlan, filled), <<>>)
          ELSE EachExecutionGroup(executionPlan, enqueued, g + 1, newExecutionPlan, filled)

\* Job.prototype._applyPlan: the value assigned to this._plan
ApplyPlan(executionPlan, enqueued) == EachExecutionGroup(executionPlan, enqueued, 1, <<>>, <<>>)

\* ----------------------------------------------------------- block builder
\* The receiver of a method call: the object `this` is bound to.  A Job
\* instance carries its agent; Job.prototype has no _agent property.
JobInstance(a) == [agent |-> Some(a)]

JobPrototype == [agent |-> None]

\* the argument list of taskDefinition._build() in _buildTask: empty
BuildArgs == <<>>

\* the i-th instance returned by the call-th builder invocation of a block
TaskInstance(taskId, call, i) ==
  [taskId |-> taskId, call |-> call, idx |-> i, args |-> BuildArgs]

\* Job.prototype._buildTask with receiver self; n is the number of instances
\* the definition's builder returns on this invocation
BuildTask(self, taskSpecs, call, n) ==
  IF self.agent = None
  THEN [threw |-> Error("TypeError", ""), built |-> FALSE, tasks |-> <<>>]
  ELSE IF taskSpecs.taskId \notin self.agent[1].taskDefinitions
  THEN [threw |-> Error("UnknownTask", taskSpecs.taskId), built |-> FALSE, tasks |-> <<>>]
  ELSE [threw |-> NoError, built |-> TRUE,
        tasks |-> [i \in 1..n |-> TaskInstance(taskSpecs.taskId, call, i)]]

\* An execution block under construction: units is the heap of execution
\* objects {task, next} (next = 0 is null), heads the executionBlock array
\* (indices into units).
EmptyBlock == [units |-> <<>>, heads |-> <<>>]

\* a chaining loop that never moves previousObject past the head
RECURSIVE EachTaskStalePrevious(_, _, _, _, _)
EachTaskStalePrevious(tasks, k, selfSync, blk, previousObject) ==
  IF k > Len(tasks) THEN blk
  ELSE LET executionObject == Len(blk.units) + 1
           units1 == Append(blk.units, [task |-> tasks[k], next |-> 0])
       IN IF selfSync /\ previousObject # 0
          THEN EachTaskStalePrevious(tasks, k + 1, selfSync,
                 [units |-> [units1 EXCEPT ![previousObject].next = executionObject],
                  heads |-> blk.heads],
                 previousObject)
          ELSE EachTaskStalePrevious(tasks, k + 1, selfSync,
                 [units |-> units1, heads |-> Append(blk.heads, executionObject)],
                 IF selfSync THEN executionObject ELSE previousObject)

\* a loop that chains the units of every taskSpecs, self synchronous or not
RECURSIVE EachTaskChainAll(_, _, _, _, _)
EachTaskChainAll(tasks, k, selfSync, blk, previousObject) ==
  IF k > Len(tasks) THEN blk
  ELSE LET executionObject == Len(blk.units) + 1
           units1 == Append(blk.units, [task |-> tasks[k], next |-> 0])
       IN IF previousObject # 0
          THEN EachTaskChainAll(tasks, k + 1, selfSync,
                 [units |-> [units1 EXCEPT ![previousObject].next = executionObject],
                  heads |-> blk.heads],
                 executionObject)
          ELSE EachTaskChainAll(tasks, k + 1, selfSync,
                 [units |-> units1, heads |-> Append(blk.heads, executionObject)],
                 executionObject)

\* inner loop of _buildExecutionBlock: the tasks of one taskSpecs from k on
RECURSIVE EachTask(_, _, _, _, _)
EachTask(tasks, k, selfSync, blk, previousObject) ==
  IF k > Len(tasks) THEN blk
  ELSE LET executionObject == Len(blk.units) + 1
           units1 == Append(blk.units, [task |-> tasks[k], next |-> 0])
       IN IF selfSync
          THEN IF previousObject # 0
               THEN EachTask(tasks, k + 1, selfSync,
                      [units |-> [units1 EXCEPT ![previousObject].next = executionObject],
                       heads |-> blk.heads],
                      executionObject)
               ELSE EachTask(tasks, k + 1, selfSync,
                      [units |-> units1, heads |-> Append(blk.heads, executionObject)],
                      executionObject)
          ELSE EachTask(tasks, k + 1, selfSync,
                 [units |-> units1, heads |-> Append(blk.heads, executionObject)],
                 previousObject)

\* an outer loop that does not reset previousObject: a self synchronous
\* taskSpecs goes on from the last unit of a self synchronous predecessor
RECURSIVE EachTaskSpecsKeepPrevious(_, _, _, _, _, _)
EachTaskSpecsKeepPrevious(self, planGroup, outs, i, blk, builds) ==
  IF i > Len(planGroup) THEN [threw |-> NoError, block |-> blk, builds |-> builds]
  ELSE LET r == BuildTask(self, planGroup[i], i, outs[i])
           previousObject == IF i > 1 /\ planGroup[i - 1].selfSync /\ outs[i - 1] > 0
                             THEN Len(blk.units) ELSE 0
       IN IF r.threw # NoError
          THEN [threw |-> r.threw, block |-> EmptyBlock, builds |-> builds]
          ELSE EachTaskSpecsKeepPrevious(self, planGroup, outs, i + 1,
                 EachTask(r.tasks, 1, planGroup[i].selfSync, blk, previousObject),
                 builds + 1)

\* outer loop of _buildExecutionBlock: the group's taskSpecs from i on
RECURSIVE EachTaskSpecs(_, _, _, _, _, _)
EachTaskSpecs(self, planGroup, outs, i, blk, builds) ==
  IF i > Len(planGroup) THEN [threw |-> NoError, block |-> blk, builds |-> builds]
  ELSE LET r == BuildTask(self, planGroup[i], i, outs[i])
       IN IF r.threw # NoError
          THEN [threw |-> r.threw, block |-> EmptyBlock, builds |-> builds]
          ELSE EachTaskSpecs(self, planGroup, outs, i + 1,
                 EachTask(r.tasks, 1, planGroup[i].selfSync, blk, 0), builds + 1)

\* Job.prototype._buildExecutionBlock with receiver self.  planGroup is <<>>
\* for undefined as well: _.each iterates nothing over undefined.
BuildExecutionBlock(self, planGroup, outs) ==
  EachTaskSpecs(self, planGroup, outs, 1, EmptyBlock, 0)

\* the builder outputs of one block build: an instance count per taskSpecs
BuilderOutputs(len) == [1..len -> 0..MaxInstances]

\* ---------------------------------------------------------------- lifecycle
\* The part of the state the start transition reads and writes.
World ==
  [started |-> started, planIdx |-> planIdx, plan |-> plan,
   executionQueue |-> executionQueue, startListeners |-> startListeners,
   setupCalls |-> setupCalls, planCalls |-> planCalls, blockCalls |-> blockCalls,
   builderCalls |-> builderCalls, applied |-> applied, events |-> events]

\* the execution record of the start transition, extended by one step
Did(w, step) == [w EXCEPT !.events = Append(w.events, step)]

\* n builder invocations, recorded one by one
DidBuilds(w, n) ==
  [w EXCEPT !.events = w.events \o [i \in 1..n |-> "builder"],
            !.builderCalls = w.builderCalls + n]

\* this._plan[idx] for a JavaScript index idx: <<>> stands for undefined
GroupAt(effectivePlan, idx) ==
  IF idx + 1 \in 1..Len(effectivePlan) THEN effectivePlan[idx + 1] ELSE <<>>

\* Job.prototype._onEqApplyBlock: the listener of eq:applyBlock, an empty body
OnEqApplyBlock(w) == w

\* Job.prototype._applyNextExecutionBlock
ApplyNextExecutionBlock(w, outs) ==
  LET w1 == Did([w EXCEPT !.planIdx = w.planIdx + 1, !.blockCalls = w.blockCalls + 1],
                "cursor")
  IN IF w1.plan = None
     THEN [w |-> w1, threw |-> Error("TypeError", "")]
     ELSE LET r == BuildExecutionBlock(JobPrototype, GroupAt(w1.plan[1], w1.planIdx), outs)
              w2 == DidBuilds(w1, r.builds)
          IN IF r.threw # NoError
             THEN [w |-> w2, threw |-> r.threw]
             ELSE [w |-> OnEqApplyBlock(
                           Did([w2 EXCEPT !.executionQueue = Append(w2.executionQueue, r.block),
                                          !.applied = w2.applied + 1], "block")),
                   threw |-> NoError]

\* Job.prototype._applyPlan on the start transition's state
ApplyPlanIn(w, masterPlan, enqueued) ==
  Did([Did(w, "planBegin") EXCEPT !.plan = Some(ApplyPlan(masterPlan, enqueued)),
                                  !.planCalls = w.planCalls + 1],
      "planAssigned")

\* a _prepareRun that computes the plan before it invokes the setup hook
PrepareRunPlanFirst(w, masterPlan, enqueued, setupThrows) ==
  LET w1 == ApplyPlanIn(w, masterPlan, enqueued)
      w2 == Did([w1 EXCEPT !.setupCalls = w1.setupCalls + 1], "setup")
  IN IF setupThrows
     THEN [w |-> Did(w2, "setupThrew"), threw |-> Error("SetupError", "")]
     ELSE [w |-> Did(w2, "setupReturned"), threw |-> NoError]

\* Job.prototype._prepareRun: _applyAgentSetup, then _applyPlan
PrepareRun(w, masterPlan, enqueued, setupThrows) ==
  LET w1 == Did([w EXCEPT !.setupCalls = w.setupCalls + 1], "setup")
  IN IF setupThrows
     THEN [w |-> Did(w1, "setupThrew"), threw |-> Error("SetupError", "")]
     ELSE [w |-> ApplyPlanIn(Did(w1, "setupReturned"), masterPlan, enqueued),
           threw |-> NoError]

\* Job.prototype._onJobStart
OnJobStart(w, masterPlan, enqueued, setupThrows, outs) ==
  LET p == PrepareRun(w, masterPlan, enqueued, setupThrows)
  IN IF p.threw # NoError THEN p ELSE ApplyNextExecutionBlock(p.w, outs)

\* this._events.emit('job:start'): the listener was registered with once
EmitJobStart(w, masterPlan, enqueued, setupThrows, outs) ==
  IF w.startListeners > 0
  THEN OnJobStart([w EXCEPT !.startListeners = w.startListeners - 1],
                  masterPlan, enqueued, setupThrows, outs)
  ELSE [w |-> w, threw |-> NoError]

\* run() without the started guard, calling the start handler directly
RunJobUnguarded(w, masterPlan, enqueued, setupThrows, outs) ==
  OnJobStart([w EXCEPT !.started = TRUE], masterPlan, enqueued, setupThrows, outs)

\* Job.prototype.run
RunJob(w, masterPlan, enqueued, setupThrows, outs) ==
  IF w.started THEN [w |-> w, threw |-> NoError]
  ELSE EmitJobStart([w EXCEPT !.started = TRUE], masterPlan, enqueued, setupThrows, outs)

\* JavaScript truthiness of an argument (numbers and objects here are truthy)
truthy(v) == v.type \notin {"null", "undefined"} /\ ~(v.type = "string" /\ v.str = "")

\* a _setUid that stores whatever it is given
SetUidUnchecked(argUid) == [threw |-> NoError, uid |-> argUid]

\* Job.prototype._setUid: the error thrown, and the value assigned to this.uid
SetUid(argUid) ==
  IF ~truthy(argUid) \/ ~isString(argUid) \/ argUid.str = ""
  THEN [threw |-> Error("InvalidArgument", ""), uid |-> JsOther("null")]
  ELSE [threw |-> NoError, uid |-> argUid]

\* the taskId check of Job.prototype.enqueue
ValidTaskId(taskId) == isString(taskId) /\ taskId.str # ""

\* the paramsObj check of Job.prototype.params
ValidParams(paramsObj) == ~isArray(paramsObj) /\ isObject(paramsObj)

Outcome(op, threw) ==
  [op |-> op, threw |-> threw,
   returned |-> IF threw # NoError THEN "none" ELSE IF op = "run" THEN "undefined" ELSE "job"]

\* ------------------------------------------------------------------ actions
Commit(w) ==
  /\ started' = w.started
  /\ planIdx' = w.planIdx
  /\ plan' = w.plan
  /\ executionQueue' = w.executionQueue
  /\ startListeners' = w.startListeners
  /\ setupCalls' = w.setupCalls
  /\ planCalls' = w.planCalls
  /\ blockCalls' = w.blockCalls
  /\ builderCalls' = w.builderCalls
  /\ applied' = w.applied
  /\ events' = w.events

\* an enqueue that pushes its argument without checking it
EnqueueUnchecked(taskId) ==
  /\ phase = "job"
  /\ Len(enqueuedTasks) < MaxEnqueue
  /\ enqueuedTasks' = Append(enqueuedTasks, taskId.str)
  /\ result' = Outcome("enqueue", NoError)
  /\ UNCHANGED <<agent, uid, started, planIdx, executionQueueIdx, params, plan,
                 executionQueue, startListeners, obsVars, runCalls, harnessVars>>

\* the uid arguments given to the constructor
UidArgs == {JsString("job1"), JsString("")}
             \cup {JsOther(t) : t \in {"undefined", "null", "number", "object"}}

\* new Job(uid, scraper, agent) from line 286 on: the uid is set unless it is
\* undefined, then the event listeners are registered.  A constructor that
\* throws yields no job (phase "failed").
Construct(uidArg) ==
  /\ phase = "new"
  /\ LET r == IF uidArg.type # "undefined" THEN SetUid(uidArg)
              ELSE [threw |-> NoError, uid |-> uid]
     IN IF r.threw # NoError
        THEN /\ phase' = "failed"
             /\ UNCHANGED <<uid, startListeners>>
             /\ result' = Outcome("new", r.threw)
        ELSE /\ phase' = "job"
             /\ uid' = r.uid
             /\ startListeners' = 1
             /\ result' = Outcome("new", NoError)
  /\ UNCHANGED <<agent, started, planIdx, executionQueueIdx, params, enqueuedTasks, plan,
                 executionQueue, obsVars, runCalls, inGroup, inOuts, outBlock, paramsLog,
                 httpVars>>

\* job.enqueue(taskId)
Enqueue(taskId) ==
  /\ phase = "job"
  /\ IF ~ValidTaskId(taskId)
     THEN /\ result' = Outcome("enqueue", Error("InvalidArgument", ""))
          /\ UNCHANGED enqueuedTasks
     ELSE /\ Len(enqueuedTasks) < MaxEnqueue
          /\ enqueuedTasks' = Append(enqueuedTasks, taskId.str)
          /\ result' = Outcome("enqueue", NoError)
  /\ UNCHANGED <<agent, uid, started, planIdx, executionQueueIdx, params, plan,
                 executionQueue, startListeners, obsVars, runCalls, harnessVars>>

\* a params that invokes the agent's setup hook as soon as it is called
ParamsEagerSetup(paramsObj) ==
  /\ phase \in {"job", "params"}
  /\ IF ~ValidParams(paramsObj)
     THEN /\ result' = Outcome("params", Error("InvalidArgument", ""))
          /\ UNCHANGED <<params, paramsLog, obsVars, started, planIdx, plan,
                         executionQueue, startListeners>>
     ELSE /\ phase = "params" => Len(paramsLog) < MaxParamsCalls
          /\ params' = extend(params, paramsObj.obj)
          /\ paramsLog' = IF phase = "params" THEN Append(paramsLog, paramsObj.obj)
                          ELSE paramsLog
          /\ result' = Outcome("params", NoError)
          /\ Commit(Did([World EXCEPT !.setupCalls = setupCalls + 1], "setup"))
  /\ UNCHANGED <<agent, uid, executionQueueIdx, enqueuedTasks, runCalls, phase, inGroup,
                 inOuts, outBlock, httpVars>>

\* job.params(paramsObj); the params harness (phase "params") also records
\* the valid arguments in call order
Params(paramsObj) ==
  /\ phase \in {"job", "params"}
  /\ IF ~ValidParams(paramsObj)
     THEN /\ result' = Outcome("params", Error("InvalidArgument", ""))
          /\ UNCHANGED <<params, paramsLog>>
     ELSE /\ phase = "params" => Len(paramsLog) < MaxParamsCalls
          /\ params' = extend(params, paramsObj.obj)
          /\ paramsLog' = IF phase = "params" THEN Append(paramsLog, paramsObj.obj)
                          ELSE paramsLog
          /\ result' = Outcome("params", NoError)
  /\ UNCHANGED <<agent, uid, started, planIdx, executionQueueIdx, enqueuedTasks, plan,
                 executionQueue, startListeners, obsVars, runCalls, phase, inGroup,
                 inOuts, outBlock, httpVars>>

\* the group the next block production reads
NextGroup == GroupAt(ApplyPlan(agent.plan, enqueuedTasks), planIdx + 1)

\* the number of builders the next block production of run() invokes
NextBuilderCalls ==
  IF started THEN 0
  ELSE BuildExecutionBlock(JobPrototype, NextGroup, [i \in 1..Len(NextGroup) |-> 0]).builds

\* job.run(); the setup hook's outcome and the outputs of the builders it
\* invokes are inputs
Run ==
  /\ phase = "job"
  /\ runCalls < MaxRunCalls
  /\ runCalls' = runCalls + 1
  /\ \E setupThrows \in BOOLEAN, invoked \in BuilderOutputs(NextBuilderCalls) :
       LET outs == [i \in 1..Len(NextGroup) |->
                      IF i <= NextBuilderCalls THEN invoked[i] ELSE 0]
           r == RunJob(World, agent.plan, enqueuedTasks, setupThrows, outs)
       IN /\ Commit(r.w)
          /\ result' = Outcome("run", r.threw)
  /\ UNCHANGED <<agent, uid, executionQueueIdx, params, enqueuedTasks, harnessVars>>

\* job._applyPlan() on a job with any enqueued tasks (the plan filter alone)
ApplyPlanStep ==
  /\ phase = "filter"
  /\ phase' = "filtered"
  /\ plan' = Some(ApplyPlan(agent.plan, enqueuedTasks))
  /\ planCalls' = planCalls + 1
  /\ UNCHANGED <<agent, uid, started, planIdx, executionQueueIdx, params, enqueuedTasks,
                 executionQueue, startListeners, setupCalls, blockCalls, builderCalls,
                 applied, events, runCalls, result, inGroup, inOuts, outBlock, paramsLog,
                 httpVars>>

\* job._buildExecutionBlock(planGroup) on a job instance (the builder alone)
BuildStep ==
  /\ phase = "build"
  /\ phase' = "built"
  /\ outBlock' = BuildExecutionBlock(JobInstance(agent), inGroup, inOuts)
  /\ UNCHANGED <<agent, jobVars, obsVars, runCalls, result, inGroup, inOuts, paramsLog,
                 httpVars>>

\* --------------------------------------------------------------------- Http
\* the request verbs Http exposes
Verbs == {"del", "get", "head", "patch", "post", "put"}

\* a table that sends post to the client's put
DelegateSwapped == [v \in Verbs |-> IF v = "post" THEN "put" ELSE v]

\* the method of this._request each verb delegate calls
Delegate == [v \in Verbs |-> v]

\* the targets requested, and res.request.uri.hostname for each href
Hrefs == {"http://www.1.com/", "http://www.2.com/"}

Hostname == [h \in Hrefs |-> IF h = "http://www.1.com/" THEN "www.1.com" ELSE "www.2.com"]

Hostnames == {Hostname[h] : h \in Hrefs}

\* the first argument of a verb delegate: a uri string or an options object
Param1s == {JsString(h) : h \in Hrefs}
             \cup {JsObject([ref |-> "param1", uri |-> h]) : h \in Hrefs}

\* the second argument: nothing, the caller's options object, or a callback
Param2s == {JsOther("undefined"), JsObject([ref |-> "opts", a |-> 1]), JsOther("function")}

\* the third argument: nothing or a callback
Param3s == {JsOther("undefined"), JsOther("function")}

\* the argument shapes of the calling convention: uri-or-options, then an
\* optional options object (after a uri), then an optional callback
Shape(param1, param2, param3) ==
  /\ ~(param1.type = "object" /\ param2.type = "object")
  /\ ~(param2.type = "function" /\ param3.type = "function")

isFunction(v) == v.type = "function"

\* Http.prototype._initRequestParams
InitRequestParams(param1, param2, param3) ==
  LET callback == IF isFunction(param2) /\ ~truthy(param3) THEN param2
                  ELSE JsOther("undefined")
  IN IF isObject(param2) /\ ~isFunction(param2)
     THEN [uri |-> param1,
           options |-> JsObject(extend(param2.obj, [uri |-> param1.str])),
           callback |-> param3]
     ELSE IF isString(param1)
     THEN [uri |-> param1,
           options |-> JsObject([ref |-> "new", uri |-> param1.str]),
           callback |-> callback]
     ELSE [uri |-> JsString(param1.obj.uri), options |-> param1, callback |-> callback]

\* the Http instance after construction
NewHttp ==
  /\ httpLog = <<>>
  /\ cookieJar = [h \in Hostnames |-> 0]
  /\ requests = 0
  /\ inflight = {}
  /\ clientCalls = <<>>
  /\ completion = None

\* this._cookieJar.getCookieString(cookieHost): the cookies stored for the
\* hostname of cookieHost (a count stands for the string)
getCookieString(jar, cookieHost) == jar[cookieHost.hostname]

\* an interception that calls back before it logs
InterceptResponseCallbackFirst(log, jar, err, res, callback) ==
  IF err
  THEN IF isFunction(callback)
       THEN [log |-> log, raised |-> FALSE,
             calls |-> <<[err |-> TRUE, res |-> 0, body |-> 0, logSeen |-> Len(log)]>>]
       ELSE [log |-> log, raised |-> TRUE, calls |-> <<>>]
  ELSE LET cookieHost == [protocol |-> "http:", hostname |-> Hostname[res.href]]
           logEntry == [response |-> res.id, body |-> res.id,
                        cookies |-> getCookieString(jar, cookieHost),
                        request |-> res.id, url |-> res.href]
       IN [log |-> Append(log, logEntry), raised |-> FALSE,
           calls |-> IF isFunction(callback)
                     THEN <<[err |-> FALSE, res |-> res.id, body |-> res.id,
                             logSeen |-> Len(log)]>>
                     ELSE <<>>]

\* Http.prototype._interceptResponse with _pushToLog: the log, whether a
\* TypeError was raised, and the callback invocations made (each with its
\* arguments and the length of the log it could see)
InterceptResponse(log, jar, err, res, callback) ==
  IF err
  THEN IF isFunction(callback)
       THEN [log |-> log, raised |-> FALSE,
             calls |-> <<[err |-> TRUE, res |-> 0, body |-> 0, logSeen |-> Len(log)]>>]
       ELSE [log |-> log, raised |-> TRUE, calls |-> <<>>]
  ELSE LET cookieHost == [protocol |-> "http:", hostname |-> Hostname[res.href]]
           logEntry == [response |-> res.id, body |-> res.id,
                        cookies |-> getCookieString(jar, cookieHost),
                        request |-> res.id, url |-> res.href]
           log1 == Append(log, logEntry)
       IN [log |-> log1, raised |-> FALSE,
           calls |-> IF isFunction(callback)
                     THEN <<[err |-> FALSE, res |-> res.id, body |-> res.id,
                             logSeen |-> Len(log1)]>>
                     ELSE <<>>]

\* http.<verb>(param1, param2, param3): one call on the client, whose
\* completion callback stays pending
Request(verb, param1, param2, param3) ==
  /\ phase = "http"
  /\ requests < MaxRequests
  /\ Shape(param1, param2, param3)
  /\ LET p == InitRequestParams(param1, param2, param3)
     IN /\ clientCalls' = <<[method |-> Delegate[verb], uri |-> p.uri,
                            options |-> p.options, callback |-> JsOther("function")]>>
        /\ inflight' = inflight \cup
             {[id |-> requests + 1, href |-> p.uri.str,
               supplied |-> (isFunction(param2) \/ isFunction(param3)),
               callback |-> p.callback]}
  /\ requests' = requests + 1
  /\ UNCHANGED <<agent, jobVars, obsVars, runCalls, result, phase, inGroup, inOuts,
                 outBlock, paramsLog, httpLog, cookieJar, completion>>

\* the client completes request r: on success it has stored the response's
\* cookie in the jar; then the function given at the call runs
\* _interceptResponse with the caller's callback
Complete(r, ok) ==
  /\ phase = "http"
  /\ r \in inflight
  /\ inflight' = inflight \ {r}
  /\ cookieJar' = IF ok THEN [cookieJar EXCEPT ![Hostname[r.href]] = @ + 1] ELSE cookieJar
  /\ LET i == InterceptResponse(httpLog, cookieJar', ~ok, r, r.callback)
     IN /\ httpLog' = i.log
        /\ completion' = Some([request |-> r, ok |-> ok, raised |-> i.raised,
                               calls |-> i.calls])
  /\ UNCHANGED <<agent, jobVars, obsVars, runCalls, result, phase, inGroup, inOuts,
                 outBlock, paramsLog, requests, clientCalls>>

\* ----------------------------------------------------------- specifications
\* a job that has not run, with params p (the constructor leaves p = {})
JobWithParams(p) ==
  /\ uid = JsString("job1")
  /\ started = FALSE
  /\ planIdx = -1
  /\ executionQueueIdx = -1
  /\ params = p
  /\ enqueuedTasks = <<>>
  /\ plan = None
  /\ executionQueue = <<>>
  /\ startListeners = 1
  /\ setupCalls = 0
  /\ planCalls = 0
  /\ blockCalls = 0
  /\ builderCalls = 0
  /\ applied = 0
  /\ events = <<>>
  /\ runCalls = 0
  /\ result = Outcome("new", NoError)

\* the state the Job constructor leaves (uid given as a valid string)
NewJob == JobWithParams(EmptyObj)

NoHarness ==
  /\ inGroup = <<>>
  /\ inOuts = <<>>
  /\ outBlock = [threw |-> NoError, block |-> EmptyBlock, builds |-> 0]
  /\ paramsLog = <<>>
  /\ NewHttp

Agent(masterPlan, registry) ==
  [id |-> "agent1", plan |-> masterPlan, taskDefinitions |-> registry]

\* the job's public API: enqueue, params and run in any order
Init ==
  /\ \E mp \in LifecyclePlans, reg \in Registries : agent = Agent(mp, reg)
  /\ NewJob
  /\ phase = "job"
  /\ NoHarness

Next ==
  \/ \E taskId \in EnqueueArgs : Enqueue(taskId)
  \/ \E paramsObj \in ParamsArgs : Params(paramsObj)
  \/ Run

Spec == Init /\ [][Next]_vars

\* the plan filter on every Master Plan and every enqueue sequence
InitPlan ==
  /\ \E mp \in MasterPlans : agent = Agent(mp, TaskIds)
  /\ uid = JsString("job1")
  /\ started = FALSE
  /\ planIdx = -1
  /\ executionQueueIdx = -1
  /\ params = EmptyObj
  /\ enqueuedTasks \in SeqsUpTo(TaskIds, MaxFilterEnqueue)
  /\ plan = None
  /\ executionQueue = <<>>
  /\ startListeners = 1
  /\ setupCalls = 0
  /\ planCalls = 0
  /\ blockCalls = 0
  /\ builderCalls = 0
  /\ applied = 0
  /\ events = <<>>
  /\ runCalls = 0
  /\ result = Outcome("enqueue", NoError)
  /\ phase = "filter"
  /\ NoHarness

NextPlan == ApplyPlanStep

PlanSpec == InitPlan /\ [][NextPlan]_vars

\* the block builder on every group, registry and builder output
InitBuild ==
  /\ \E reg \in Registries : agent = Agent(<<>>, reg)
  /\ \E p \in {EmptyObj, [a |-> 1]} : JobWithParams(p)
  /\ phase = "build"
  /\ inGroup \in SeqsUpTo(TaskSpecs, MaxGroupLen)
  /\ inOuts \in BuilderOutputs(Len(inGroup))
  /\ outBlock = [threw |-> NoError, block |-> EmptyBlock, builds |-> 0]
  /\ paramsLog = <<>>
  /\ NewHttp

NextBuild == BuildStep

BuildSpec == InitBuild /\ [][NextBuild]_vars

\* the constructor on every uid argument, then the public API
InitCtor ==
  /\ \E mp \in LifecyclePlans, reg \in Registries : agent = Agent(mp, reg)
  /\ uid = JsOther("null")
  /\ started = FALSE
  /\ planIdx = -1
  /\ executionQueueIdx = -1
  /\ params = EmptyObj
  /\ enqueuedTasks = <<>>
  /\ plan = None
  /\ executionQueue = <<>>
  /\ startListeners = 0
  /\ setupCalls = 0
  /\ planCalls = 0
  /\ blockCalls = 0
  /\ builderCalls = 0
  /\ applied = 0
  /\ events = <<>>
  /\ runCalls = 0
  /\ result = Outcome("none", NoError)
  /\ phase = "new"
  /\ NoHarness

NextCtor ==
  \/ \E uidArg \in UidArgs : Construct(uidArg)
  \/ \E taskId \in EnqueueArgs : Enqueue(taskId)
  \/ \E paramsObj \in ParamsArgs : Params(paramsObj)
  \/ Run

CtorSpec == InitCtor /\ [][NextCtor]_vars

\* job.params alone, on every sequence of arguments
InitParams ==
  /\ \E mp \in LifecyclePlans : agent = Agent(mp, TaskIds)
  /\ NewJob
  /\ phase = "params"
  /\ NoHarness

NextParams == \E paramsObj \in MergeArgs : Params(paramsObj)

ParamsSpec == InitParams /\ [][NextParams]_vars

\* one Http instance: verb calls and completions in any interleaving
InitHttp ==
  /\ agent = Agent(<<>>, {})
  /\ NewJob
  /\ phase = "http"
  /\ NoHarness

NextHttp ==
  \/ \E verb \in Verbs, param1 \in Param1s, param2 \in Param2s, param3 \in Param3s :
       Request(verb, param1, param2, param3)
  \/ \E r \in inflight, ok \in BOOLEAN : Complete(r, ok)

HttpSpec == InitHttp /\ [][NextHttp]_vars

\* =================================================================== claims
\* ---------------------------------------------------------------------- C1
\* C1: run() is idempotent.  The start transition (setup hook, plan
\* computation, first block production) happens once if run() was called at
\* least once and never otherwise; started goes from false to true once and
\* never back; a run() call made while started is true changes no job state
\* and invokes the setup hook, the plan filter and the builders no further
\* time.
C1_RunIdempotent ==
  /\ [](/\ started <=> (runCalls >= 1)
        /\ setupCalls = (IF runCalls >= 1 THEN 1 ELSE 0)
        /\ startListeners = (IF started THEN 0 ELSE 1)
        /\ planCalls <= 1
        /\ blockCalls = planCalls
        /\ (plan # None) <=> (planCalls = 1)
        /\ ~started => (plan = None /\ planCalls = 0 /\ blockCalls = 0
                         /\ executionQueue = <<>> /\ planIdx = -1))
  /\ [][started => started']_vars
  /\ [][(started /\ Run) => UNCHANGED <<agent, jobVars, obsVars>>]_vars

\* run() was called twice, after an enqueue and a params call
C1_Witness ==
  /\ runCalls = 2
  /\ started
  /\ setupCalls = 1
  /\ enqueuedTasks # <<>>
  /\ params # EmptyObj

\* ---------------------------------------------------------------------- C2
FirstGroupRegistered ==
  /\ plan # None
  /\ Len(plan[1]) > 0
  /\ \A i \in 1..Len(plan[1][1]) : plan[1][1][i].taskId \in agent.taskDefinitions

FirstRunReturned == result.op = "run" /\ runCalls = 1

\* C2: the first run() on a job whose effective plan is non-empty and whose
\* first group references registered task identifiers only completes without
\* error and leaves planIdx = 0 and exactly one block in the execution queue,
\* the block built from effective-plan group 0, with one eq:applyBlock raised.
C2_FirstRunProducesFirstBlock ==
  (FirstRunReturned /\ FirstGroupRegistered) =>
    /\ result.threw = NoError
    /\ planIdx = 0
    /\ Len(executionQueue) = 1
    /\ applied = 1
    /\ \E outs \in BuilderOutputs(Len(plan[1][1])) :
         executionQueue = <<BuildExecutionBlock(JobInstance(agent), plan[1][1], outs).block>>

\* ------------------------------------------------------------------ C3, C4
HoldsId(group, id) == \E i \in 1..Len(group) : group[i].taskId = id

\* the first TaskSpec of the group that bears the identifier
SpecFor(group, id) ==
  group[CHOOSE i \in 1..Len(group) :
          group[i].taskId = id /\ \A j \in 1..(i - 1) : group[j].taskId # id]

\* the enqueued identifiers the group holds, in enqueue order
Matching(group, enq) == SelectSeq(enq, LAMBDA e : HoldsId(group, e))

\* the Master Plan groups (positions) holding an enqueued identifier, in order
Surviving(mp, enq) ==
  SelectSeq([g \in 1..Len(mp) |-> g], LAMBDA g : Matching(mp[g], enq) # <<>>)

\* C3: each group of the effective plan is the walk of the enqueued
\* identifiers, in enqueue order, emitting for every identifier the
\* corresponding Master Plan group holds that group's (first) TaskSpec for it:
\* k enqueues give k references, identifiers in no group give nothing, and the
\* order inside a group is the enqueue order, not the Master Plan's.
C3_PlanFilterOrder ==
  phase = "filtered" =>
    LET mp == agent.plan
        enq == enqueuedTasks
        surv == Surviving(mp, enq)
    IN /\ plan # None
       /\ \A k \in 1..Len(plan[1]) :
            /\ k <= Len(surv)
            /\ LET m == Matching(mp[surv[k]], enq)
               IN plan[1][k] = [j \in 1..Len(m) |-> SpecFor(mp[surv[k]], m[j])]

\* enqueue a, b, a against one group holding b and a gives [a, b, a]
C3_Witness ==
  /\ phase = "filtered"
  /\ enqueuedTasks = <<"a", "b", "a">>
  /\ Len(agent.plan) = 1
  /\ GroupTaskIds(agent.plan[1]) = <<"b", "a">>
  /\ Len(plan[1]) = 1
  /\ GroupTaskIds(plan[1][1]) = <<"a", "b", "a">>

Range(seq) == {seq[i] : i \in 1..Len(seq)}

\* C4: the effective plan has no empty group, has one group for exactly the
\* Master Plan groups that hold an enqueued identifier, and keeps them in the
\* Master Plan's order: the k-th effective group draws its TaskSpecs from the
\* k-th surviving Master Plan group only.
C4_GroupSurvivalAndOrder ==
  phase = "filtered" =>
    LET mp == agent.plan
        enq == enqueuedTasks
        held == {g \in 1..Len(mp) : \E i \in 1..Len(enq) : HoldsId(mp[g], enq[i])}
    IN /\ plan # None
       /\ \A k \in 1..Len(plan[1]) : plan[1][k] # <<>>
       /\ Len(plan[1]) = Cardinality(held)
       /\ \E f \in [1..Len(plan[1]) -> held] :
            /\ \A k1, k2 \in 1..Len(plan[1]) : k1 < k2 => f[k1] < f[k2]
            /\ \A k \in 1..Len(plan[1]) :
                 /\ Range(plan[1][k]) \subseteq Range(mp[f[k]])
                 /\ \A i \in 1..Len(enq) :
                      HoldsId(mp[f[k]], enq[i]) => HoldsId(plan[1][k], enq[i])

\* the first of two Master Plan groups is dropped, the second survives
C4_Witness ==
  /\ phase = "filtered"
  /\ Len(agent.plan) = 2
  /\ GroupTaskIds(agent.plan[1]) = <<"a">>
  /\ GroupTaskIds(agent.plan[2]) = <<"b", "b">>
  /\ enqueuedTasks = <<"b">>
  /\ Len(plan[1]) = 1
  /\ GroupTaskIds(plan[1][1]) = <<"b">>

\* ------------------------------------------------------------------ C5, C6
Built == phase = "built" /\ outBlock.threw = NoError

\* the tasks met from unit u on by following next (at most fuel of them)
RECURSIVE ChainFrom(_, _, _)
ChainFrom(units, u, fuel) ==
  IF u = 0 \/ fuel = 0 THEN <<>>
  ELSE <<units[u].task>> \o ChainFrom(units, units[u].next, fuel - 1)

\* the top-level units of the block made for the i-th TaskSpec of the group
HeadsFor(blk, i) == SelectSeq(blk.heads, LAMBDA h : blk.units[h].task.call = i)

\* the instances the builder returned for the i-th TaskSpec, in builder order
InstancesOf(i) == [k \in 1..inOuts[i] |-> TaskInstance(inGroup[i].taskId, i, k)]

SelfSyncChained(i) ==
  LET blk == outBlock.block
      heads == HeadsFor(blk, i)
  IN /\ Len(heads) = 1
     /\ ChainFrom(blk.units, heads[1], Len(blk.units) + 1) = InstancesOf(i)

\* C5 as stated: every selfSync TaskSpec has exactly one head in the block,
\* however many instances its builder returned; the head wraps the 1st
\* instance and next leads through the others in builder order, to null.
C5_SelfSyncOneHeadAlways ==
  Built => \A i \in 1..Len(inGroup) : inGroup[i].selfSync => SelfSyncChained(i)

\* C5, amended: a selfSync TaskSpec whose builder returned at least one
\* instance has exactly one head, which wraps the 1st instance and whose next
\* chain visits the 2nd, 3rd, ... instances in builder order and ends in null;
\* one whose builder returned no instance has no head.
C5_SelfSyncChaining ==
  Built =>
    \A i \in 1..Len(inGroup) :
      inGroup[i].selfSync =>
        IF inOuts[i] = 0 THEN HeadsFor(outBlock.block, i) = <<>> ELSE SelfSyncChained(i)

\* a selfSync TaskSpec with three instances, after a TaskSpec with none
C5_Witness ==
  /\ Built
  /\ Len(inGroup) = 2
  /\ inGroup[1].selfSync /\ inOuts[1] = 0
  /\ inGroup[2].selfSync /\ inOuts[2] = 3
  /\ Len(outBlock.block.heads) = 1
  /\ Len(outBlock.block.units) = 3

\* C6: a TaskSpec whose selfSync is false and whose builder returned n >= 0
\* instances has exactly n top-level units in the block, in builder order,
\* each with next = null.
C6_NonSelfSyncFanOut ==
  Built =>
    \A i \in 1..Len(inGroup) :
      ~inGroup[i].selfSync =>
        LET blk == outBlock.block
            heads == HeadsFor(blk, i)
        IN /\ [k \in 1..Len(heads) |-> blk.units[heads[k]].task] = InstancesOf(i)
           /\ \A k \in 1..Len(heads) : blk.units[heads[k]].next = 0

\* a TaskSpec with selfSync false and three instances: three heads
C6_Witness ==
  /\ Built
  /\ Len(inGroup) = 1
  /\ ~inGroup[1].selfSync /\ inOuts[1] = 3
  /\ Len(outBlock.block.heads) = 3

\* ---------------------------------------------------------------------- C7
FirstGroupHasUnknown ==
  /\ plan # None
  /\ Len(plan[1]) > 0
  /\ \E i \in 1..Len(plan[1][1]) : plan[1][1][i].taskId \notin agent.taskDefinitions

\* C7: when run() produces the block of a group holding a TaskSpec whose
\* taskId has no TaskDefinition in the agent's registry, run() fails with the
\* UnknownTask error naming that identifier; no block is appended and no
\* eq:applyBlock is raised.
C7_UnknownTaskRaised ==
  (FirstRunReturned /\ FirstGroupHasUnknown) =>
    /\ result.threw.kind = "UnknownTask"
    /\ HoldsId(plan[1][1], result.threw.taskId)
    /\ result.threw.taskId \notin agent.taskDefinitions
    /\ executionQueue = <<>>
    /\ applied = 0

\* ---------------------------------------------------------------------- C8
\* C8: planIdx never exceeds the effective plan's length - 1, and the first
\* block request of a run whose effective plan is empty is rejected with an
\* error and appends nothing to the execution queue.
C8_NoProductionPastPlanEnd ==
  /\ plan # None => planIdx <= Len(plan[1]) - 1
  /\ (FirstRunReturned /\ plan # None /\ plan[1] = <<>>) =>
       (result.threw # NoError /\ executionQueue = <<>>)

\* ---------------------------------------------------------------------- C9
AllPlanRegistered ==
  /\ plan # None
  /\ Len(plan[1]) >= 1
  /\ \A g \in 1..Len(plan[1]) :
       \A i \in 1..Len(plan[1][g]) : plan[1][g][i].taskId \in agent.taskDefinitions

\* C9: once run() has returned on a job with n effective-plan groups whose
\* task definitions all exist, the execution queue holds n blocks, one per
\* group, and planIdx = n - 1.  run() is synchronous and leaves no listener,
\* timer or message behind, so what it has not done when it returns is never
\* done.
C9_RunsToPlanExhaustion ==
  (result.op = "run" /\ AllPlanRegistered) =>
    /\ Len(executionQueue) = Len(plan[1])
    /\ planIdx = Len(plan[1]) - 1

\* --------------------------------------------------------------------- C10
\* C10: enqueue(taskId) with a taskId that is not a non-empty string and
\* params(p) with p an array, a scalar or null fail with an error and leave
\* enqueuedTasks, params, started, planIdx, plan and executionQueue as they
\* were; a valid enqueue appends that identifier at the end of enqueuedTasks,
\* changes nothing else and returns the job.
C10_InvalidArgumentsLeaveJobUnmodified ==
  [][/\ \A v \in EnqueueArgs :
          Enqueue(v) =>
            IF v.type = "string" /\ v.str # ""
            THEN /\ enqueuedTasks' = Append(enqueuedTasks, v.str)
                 /\ result'.threw = NoError
                 /\ result'.returned = "job"
                 /\ UNCHANGED <<agent, uid, params, started, planIdx, executionQueueIdx,
                                plan, executionQueue, startListeners, obsVars>>
            ELSE /\ result'.threw.kind = "InvalidArgument"
                 /\ UNCHANGED <<agent, jobVars, obsVars>>
     /\ \A v \in ParamsArgs :
          (Params(v) /\ v.type \in {"array", "number", "string", "null"}) =>
            /\ result'.threw.kind = "InvalidArgument"
            /\ UNCHANGED <<agent, jobVars, obsVars>>]_vars

\* an invalid enqueue failed on a started job that has tasks and params
C10_Witness ==
  /\ result.op = "enqueue"
  /\ result.threw.kind = "InvalidArgument"
  /\ enqueuedTasks = <<"a", "b">>
  /\ params = [a |-> 2, b |-> 3]
  /\ started

\* --------------------------------------------------------------------- C11
NonEmptyString(v) == v.type = "string" /\ v.str # ""

\* C11 as stated: every uid that is not a non-empty string, an omitted
\* (undefined) one included, makes the constructor fail, so every constructed
\* job has a non-empty string uid.
C11_UidAlwaysNonEmptyString == phase = "job" => NonEmptyString(uid)

\* C11, amended: a uid that is given (not undefined) and is not a non-empty
\* string makes the constructor fail; an omitted (undefined) uid is accepted
\* and leaves uid null; a non-empty string becomes the uid.  The uid of a
\* constructed job is never changed by enqueue, params or run.
C11_UidValidity ==
  /\ [][\A v \in UidArgs :
          Construct(v) =>
            IF v.type = "undefined" THEN phase' = "job" /\ uid' = JsOther("null")
            ELSE IF NonEmptyString(v) THEN phase' = "job" /\ uid' = v
            ELSE /\ phase' = "failed"
                 /\ result'.threw.kind = "InvalidArgument"]_vars
  /\ [][phase = "job" => (phase' = "job" /\ uid' = uid)]_vars
  /\ [](phase = "job" => (NonEmptyString(uid) \/ uid = JsOther("null")))

\* a job constructed with a valid uid, after enqueue, params and run
C11_Witness ==
  /\ phase = "job"
  /\ uid = JsString("job1")
  /\ started
  /\ enqueuedTasks # <<>>
  /\ params # EmptyObj

\* --------------------------------------------------------------------- C12
\* the position of the latest recorded params call that contained key k
LatestWith(k) ==
  CHOOSE i \in 1..Len(paramsLog) :
    /\ k \in DOMAIN paramsLog[i]
    /\ \A j \in (i + 1)..Len(paramsLog) : k \notin DOMAIN paramsLog[j]

\* C12: after any sequence of valid params calls the job's params has exactly
\* the keys some call contained, each mapped to the value given by the latest
\* call that contained it; a params call changes no other job state and a
\* valid one returns the job.
C12_ParamsLastWriteWins ==
  /\ [](phase = "params" =>
          /\ DOMAIN params = UNION {DOMAIN paramsLog[i] : i \in 1..Len(paramsLog)}
          /\ \A k \in DOMAIN params : params[k] = paramsLog[LatestWith(k)][k])
  /\ [][\A p \in MergeArgs :
          Params(p) =>
            /\ UNCHANGED <<agent, uid, started, planIdx, executionQueueIdx, enqueuedTasks,
                           plan, executionQueue, startListeners, obsVars>>
            /\ ValidParams(p) => result'.returned = "job"]_vars

\* params({a:1}) then params({a:2,b:3}) gave {a:2,b:3}
C12_Witness ==
  /\ phase = "params"
  /\ paramsLog = <<[a |-> 1], [a |-> 2, b |-> 3]>>
  /\ params = [a |-> 2, b |-> 3]
  /\ result = Outcome("params", NoError)

\* --------------------------------------------------------------------- C16
\* the positions of a step in the record of the start transition
At(step) == {i \in 1..Len(events) : events[i] = step}

\* every occurrence of step b comes after an occurrence of step a
After(a, b) == \A j \in At(b) : \E i \in At(a) : i < j

\* C16: in the start transition the setup hook is invoked and returns before
\* plan computation begins, and the plan is assigned before the cursor is
\* advanced or a builder is invoked; if the setup hook fails, no plan is
\* computed and no block is produced.
C16_StartOrdering ==
  /\ After("setup", "setupReturned")
  /\ After("setupReturned", "planBegin")
  /\ After("planBegin", "planAssigned")
  /\ After("planAssigned", "cursor")
  /\ After("planAssigned", "builder")
  /\ After("cursor", "block")
  /\ At("setupThrew") # {} =>
       /\ plan = None
       /\ planCalls = 0
       /\ blockCalls = 0
       /\ planIdx = -1
       /\ executionQueue = <<>>

\* a start transition whose setup hook returned and that advanced the cursor
C16_Witness ==
  /\ started
  /\ events = <<"setup", "setupReturned", "planBegin", "planAssigned", "cursor", "block">>
  /\ plan # None
  /\ planIdx = 0

\* --------------------------------------------------------------------- C17
\* C17 as stated: every TaskDefinition builder invoked for a block is given
\* the job's current params, so every instance placed in the block is one the
\* builder yielded for those params.
C17_BuildersReceiveParams ==
  Built => \A u \in 1..Len(outBlock.block.units) :
             outBlock.block.units[u].task.args = <<params>>

\* --------------------------------------------------------------------- C18
\* C18: once the start transition has assigned the effective plan, no enqueue,
\* params or run call changes it (an enqueue after run() appends to
\* enqueuedTasks but is not reflected in the plan), and no call changes the
\* agent's Master Plan or its TaskDefinition registry.
C18_EffectivePlanFrozen ==
  /\ [][plan # None => plan' = plan]_vars
  /\ [][agent' = agent]_vars

\* a started job whose plan no longer is what the filter would give for the
\* tasks enqueued by now
C18_Witness ==
  /\ started
  /\ plan # None
  /\ result = Outcome("enqueue", NoError)
  /\ plan[1] # ApplyPlan(agent.plan, enqueuedTasks)

\* --------------------------------------------------------------------- C19
\* C19: while started is false no TaskDefinition builder and no setup hook
\* has been invoked; construction, enqueue and params never invoke either,
\* the only step that does is the start transition of the first run().
C19_NoBuilderBeforeStart ==
  /\ [](~started => (builderCalls = 0 /\ setupCalls = 0 /\ events = <<>>))
  /\ [][(builderCalls' # builderCalls \/ setupCalls' # setupCalls \/ events' # events)
          => (~started /\ started' /\ Run)]_vars

\* construction, enqueue and params happened, then run() invoked the setup hook
C19_Witness ==
  /\ phase = "job"
  /\ enqueuedTasks # <<>>
  /\ params # EmptyObj
  /\ started
  /\ runCalls = 1
  /\ setupCalls = 1

\* --------------------------------------------------------------------- C20
\* C20 as stated: between calls the cursor is the index of the last block of
\* the queue, planIdx = length of executionQueue - 1, also after a block
\* production that failed: a failed production advances neither.
C20_CursorQueueAgreement == planIdx = Len(executionQueue) - 1

\* --------------------------------------------------------------------- C13
IsPrefix(s, t) == Len(s) <= Len(t) /\ \A i \in 1..Len(s) : s[i] = t[i]

\* the log entry of a successful completion of request r, given the jar
LogEntryFor(r, jar) ==
  [response |-> r.id, body |-> r.id, cookies |-> jar[Hostname[r.href]],
   request |-> r.id, url |-> r.href]

\* C13: a new Http has an empty log; each successful completion appends
\* exactly one entry (response, body, the jar's cookies for the response's
\* host at that moment, request, url) at the end of the log, and the caller's
\* callback sees the log with that entry; a completion with an error appends
\* nothing; no step changes, reorders or removes entries already logged, and
\* only successful completions add entries.
C13_RequestLog ==
  /\ [](requests = 0 => httpLog = <<>>)
  /\ [][\A r \in inflight, ok \in BOOLEAN :
          Complete(r, ok) =>
            IF ok
            THEN /\ httpLog' = Append(httpLog, LogEntryFor(r, cookieJar'))
                 /\ \A c \in 1..Len(completion'[1].calls) :
                      /\ completion'[1].calls[c].logSeen = Len(httpLog')
                      /\ httpLog'[Len(httpLog')].request = r.id
            ELSE httpLog' = httpLog]_vars
  /\ [][IsPrefix(httpLog, httpLog')]_vars
  /\ [][httpLog' # httpLog => \E r \in inflight : Complete(r, TRUE)]_vars

\* two requests to one host completed in the reverse of their issue order,
\* each logged with the cookies of its own moment, the last with a callback
C13_Witness ==
  /\ Len(httpLog) = 2
  /\ httpLog[1].request = 2
  /\ httpLog[2].request = 1
  /\ httpLog[1].url = httpLog[2].url
  /\ httpLog[1].cookies = 1
  /\ httpLog[2].cookies = 2
  /\ completion # None
  /\ completion[1].calls # <<>>

\* --------------------------------------------------------------------- C14
\* C14 as stated: a callback supplied as the second argument (no options) or
\* as the third argument is invoked exactly once at completion, with
\* (err, null, null) on failure and (null, response, body) on success, and a
\* request issued with no callback completes without raising.
C14_CallbackConvention ==
  completion # None =>
    LET c == completion[1]
    IN /\ c.request.supplied =>
            /\ Len(c.calls) = 1
            /\ c.calls[1].err = ~c.ok
            /\ c.calls[1].res = (IF c.ok THEN c.request.id ELSE 0)
            /\ c.calls[1].body = (IF c.ok THEN c.request.id ELSE 0)
       /\ ~c.request.supplied => ~c.raised

\* --------------------------------------------------------------------- C15
\* C15: for each verb, verb(uri, options, callback) with a string uri, an
\* options object and a callback makes exactly one call on the client, on the
\* method of the same name, with that uri, that same options object and a
\* function as its arguments.
C15_VerbDelegation ==
  [][\A verb \in Verbs, param1 \in Param1s, param2 \in Param2s, param3 \in Param3s :
       (/\ isString(param1)
        /\ param2.type = "object"
        /\ isFunction(param3)
        /\ Request(verb, param1, param2, param3))
       => /\ Len(clientCalls') = 1
          /\ clientCalls'[1].method = verb
          /\ clientCalls'[1].uri = param1
          /\ clientCalls'[1].options.type = "object"
          /\ clientCalls'[1].options.obj.ref = param2.obj.ref
          /\ clientCalls'[1].options.obj.a = param2.obj.a
          /\ isFunction(clientCalls'[1].callback)]_vars

\* http.post(uri, opts, cb) reached the client's post with uri and opts
C15_Witness ==
  /\ Len(clientCalls) = 1
  /\ clientCalls[1].method = "post"
  /\ clientCalls[1].uri = JsString("http://www.1.com/")
  /\ clientCalls[1].options.obj.ref = "opts"
  /\ \E r \in inflight : r.id = requests /\ isFunction(r.callback)

\* --------------------------------------------------------------------- C21
\* the units met from unit u on by following next (at most fuel of them)
RECURSIVE UnitsFrom(_, _, _)
UnitsFrom(units, u, fuel) ==
  IF u = 0 \/ fuel = 0 THEN <<>>
  ELSE <<u>> \o UnitsFrom(units, units[u].next, fuel - 1)

\* the chain of the p-th head of the block
HeadChain(blk, p) == UnitsFrom(blk.units, blk.heads[p], Len(blk.units) + 1)

\* the position of a unit's task among the builders' outputs: the TaskSpec
\* occurrence, then the position in that builder's output
Before(t1, t2) == t1.call < t2.call \/ (t1.call = t2.call /\ t1.idx < t2.idx)

\* C21: in every block _buildExecutionBlock returns, each instance the
\* group's builders returned is wrapped by exactly one unit and there are no
\* other units; each unit is reachable from exactly one head; next chains are
\* acyclic, end in null and link only units of the same TaskSpec occurrence;
\* heads are in TaskSpec order and, within a TaskSpec, in builder order; two
\* occurrences of a TaskSpec give disjoint sets of units.
C21_BlockWellFormed ==
  Built =>
    LET blk == outBlock.block
        U == 1..Len(blk.units)
        H == 1..Len(blk.heads)
    IN /\ \A i \in 1..Len(inGroup) : \A k \in 1..inOuts[i] :
            Cardinality({u \in U : blk.units[u].task = InstancesOf(i)[k]}) = 1
       /\ \A u \in U :
            /\ blk.units[u].task.call \in 1..Len(inGroup)
            /\ blk.units[u].task.idx \in 1..inOuts[blk.units[u].task.call]
            /\ blk.units[u].next \in U \cup {0}
       /\ \A u \in U : Cardinality({p \in H : u \in Range(HeadChain(blk, p))}) = 1
       /\ \A p \in H :
            LET c == HeadChain(blk, p)
            IN /\ Len(c) <= Len(blk.units)
               /\ \A x, y \in 1..Len(c) : x # y => c[x] # c[y]
               /\ blk.units[c[Len(c)]].next = 0
       /\ \A u \in U :
            blk.units[u].next # 0 =>
              blk.units[blk.units[u].next].task.call = blk.units[u].task.call
       /\ \A p, q \in H :
            p < q => Before(blk.units[blk.heads[p]].task, blk.units[blk.heads[q]].task)
       /\ \A i, j \in 1..Len(inGroup) :
            i # j =>
              \A p, q \in H :
                (blk.units[blk.heads[p]].task.call = i /\ blk.units[blk.heads[q]].task.call = j)
                  => Range(HeadChain(blk, p)) \cap Range(HeadChain(blk, q)) = {}

\* the same self synchronous TaskSpec twice in a group, two instances each:
\* two heads, two chains of two units
C21_Witness ==
  /\ Built
  /\ Len(inGroup) = 2
  /\ inGroup[1] = inGroup[2]
  /\ inGroup[1].selfSync
  /\ inOuts = <<2, 2>>
  /\ outBlock.block.heads = <<1, 3>>
  /\ Len(outBlock.block.units) = 4
  /\ outBlock.block.units[1].next = 2
  /\ outBlock.block.units[3].next = 4

====
